---- MODULE Spec2Model ----
(***************************************************************************)
(* A model of the Stream Deck session of package streamdeck: the chunked  *)
(* report writer (writeBitmap), the foreground operations that reach it,   *)
(* the session mutex, the input poller (read) and the asynchronous button  *)
(* callbacks, and the constructor NewStreamDeck.                           *)
(*                                                                         *)
(* An image is modelled by its bounds, a record [w, h]; an encoded bitmap  *)
(* by its length, and a slice of it by the offset and the number of bytes  *)
(* copied into a frame.  The transport is a log (wire) of every            *)
(* SetFeatureReport and Write call made on the handle, with its outcome.   *)
(***************************************************************************)
EXTENDS Integers, Sequences, FiniteSets, TLC

(* ------------------------------ bounds -------------------------------- *)

\* Foreground goroutines, each making one call on the session.
NumCallers == 2

\* Input reports (or read errors) the poller's ReadInputPacket returns.
MaxReads == 2

(* -------------------------- program constants ------------------------- *)

NumButtons == 15
ButtonSize == 80
NumButtonColumns == 5
NumButtonRows == 3
Spacer == 19
PanelWidth == NumButtonColumns * ButtonSize + Spacer * (NumButtonColumns - 1)
PanelHeight == NumButtonRows * ButtonSize + Spacer * (NumButtonRows - 1)

\* len(out) of writeBitmap, the offset of the payload in it, and the length
\* of the bitmap header of makeBitmap.
FrameLen == 1024
PayloadOffset == 16
BitmapHeaderLen == 54

\* The angle FillImage passes to makeBitmap.
FillRotate == 270

Nil == "nil"

streamdeckDevices ==
    << [ProductID |-> 96,  Name |-> "Legacy Stream Deck", NumButtons |-> 15,
        ButtonSize |-> 72, StreamBuffer |-> 8192, Spacer |-> 19,
        NumButtonColumns |-> 5, NumButtonRows |-> 3],
       [ProductID |-> 99,  Name |-> "Stream Deck Mini", NumButtons |-> 6,
        ButtonSize |-> 80, StreamBuffer |-> 1024, Spacer |-> 19,
        NumButtonColumns |-> 3, NumButtonRows |-> 2],
       [ProductID |-> 144, Name |-> "Stream Deck Mini", NumButtons |-> 6,
        ButtonSize |-> 80, StreamBuffer |-> 1024, Spacer |-> 19,
        NumButtonColumns |-> 3, NumButtonRows |-> 2] >>

(* --------------------------- pure functions --------------------------- *)

Min(a, b) == IF a <= b THEN a ELSE b
Max(a, b) == IF a >= b THEN a ELSE b

uint8(n) == n % 256

\* checkValidKeyIndex: nil, or the error.
checkValidKeyIndex(keyIndex) ==
    IF keyIndex < 0 \/ keyIndex > 15 THEN "invalid key index" ELSE Nil

\* Mutant: the upper limit off by one.
checkRGBOffByOne(value) ==
    IF value < 0 \/ value > 256 THEN "invalid color range" ELSE Nil

\* checkRGB: nil, or the error.
checkRGB(value) ==
    IF value < 0 \/ value > 255 THEN "invalid color range" ELSE Nil

\* Mutant: only the byte 1 is a pressed button.
itobOneOnly(i) == IF i = 1 THEN "BtnPressed" ELSE "BtnReleased"

itob(i) == IF i = 0 THEN "BtnReleased" ELSE "BtnPressed"

\* The rotation makeBitmap works with: "for rotate < 0 { rotate += 360 }".
RECURSIVE normRotate(_)
normRotate(rotate) == IF rotate < 0 THEN normRotate(rotate + 360) ELSE rotate

\* len(makeBitmap(img, rotate)): the 54 header bytes and three bytes for every
\* pixel the loops of the angle write (none for an angle that is no case of
\* the switch).
makeBitmapLen(img, rotate) ==
    LET r == normRotate(rotate)
        width  == IF r \in {90, 270} THEN img.h ELSE img.w
        height == IF r \in {90, 270} THEN img.w ELSE img.h
    IN  BitmapHeaderLen
          + (IF r \in {0, 90, 180, 270} THEN width * height * 3 ELSE 0)

(* makeBitmap byte by byte. An image is its size and its pixels: pix maps   *)
(* << x, y >>, 0 <= x < w, 0 <= y < h, to the << R, G, B >> of a            *)
(* color.RGBA; its bounds start at (0,0).                                   *)

\* img.At(x, y): the zero colour outside the bounds.
At(img, x, y) ==
    IF x \in 0 .. img.w - 1 /\ y \in 0 .. img.h - 1 THEN img.pix[<< x, y >>]
    ELSE << 0, 0, 0 >>

\* color.RGBA.RGBA() for one channel: the 8 bits repeated in 16 bits.
RGBA16(v) == v + v * 256

\* byte(v): the low 8 bits.
byte(v) == v % 256

\* binary.Write(out, binary.LittleEndian, uint16(v) / uint32(v)).
LittleEndian16(v) == << v % 256, (v \div 256) % 256 >>
LittleEndian32(v) ==
    << v % 256, (v \div 256) % 256, (v \div 65536) % 256, (v \div 16777216) % 256 >>

\* Mutant: the size in the header leaves the header out.
fileSizeNoHeader(pixelSize) == pixelSize

\* "fileSize := pixelSize + 54"
fileSize(pixelSize) == pixelSize + BitmapHeaderLen

\* The two headers makeBitmap writes for a bitmap of width x height.
bitmapHeader(width, height) ==
    << 66, 77 >> \o LittleEndian32(fileSize(width * height * 3))
        \o << 0, 0, 0, 0 >> \o LittleEndian32(54)
        \o LittleEndian32(40) \o LittleEndian32(width) \o LittleEndian32(height)
        \o LittleEndian16(1) \o LittleEndian16(24) \o LittleEndian32(0)
        \o LittleEndian32(width * height * 3)
        \o LittleEndian32(3780) \o LittleEndian32(3780)
        \o LittleEndian32(0) \o LittleEndian32(0)

\* Mutant: the case of 90 samples as the case of 0 does.
sampleAtNoFlip(rotate, x, y, width, height) ==
    CASE rotate = 0   -> << x, y >>
      [] rotate = 90  -> << x, y >>
      [] rotate = 180 -> << width - x - 1, height - y - 1 >>
      [] rotate = 270 -> << width - x - 1, y >>

\* The point each case of the switch samples for the loop variables x and y.
sampleAt(rotate, x, y, width, height) ==
    CASE rotate = 0   -> << x, y >>
      [] rotate = 90  -> << x, height - y - 1 >>
      [] rotate = 180 -> << width - x - 1, height - y - 1 >>
      [] rotate = 270 -> << width - x - 1, y >>

\* The loop variables << x, y >> of the k-th pixel written (k from 0): y is
\* the outer loop for 0 and 180, x for 90 and 270.
loopVars(rotate, k, width, height) ==
    IF rotate \in {0, 180} THEN << k % width, k \div width >>
    ELSE << k \div height, k % height >>

\* The bytes of the k-th pixel written: blue, green, red.
pixelBytes(img, rotate, k, width, height) ==
    LET v == loopVars(rotate, k, width, height)
        p == sampleAt(rotate, v[1], v[2], width, height)
        c == At(img, p[1], p[2])
    IN  << byte(RGBA16(c[3])), byte(RGBA16(c[2])), byte(RGBA16(c[1])) >>

\* makeBitmap(img, rotate): the header, then the pixels of the loops of the
\* angle's case (no pixel for an angle that is no case of the switch).
makeBitmap(img, rotate) ==
    LET r == normRotate(rotate)
        width  == IF r \in {90, 270} THEN img.h ELSE img.w
        height == IF r \in {90, 270} THEN img.w ELSE img.h
        n == IF r \in {0, 90, 180, 270} THEN width * height ELSE 0
    IN  bitmapHeader(width, height)
          \o [j \in 1 .. 3 * n |->
                pixelBytes(img, r, (j - 1) \div 3, width, height)[((j - 1) % 3) + 1]]

\* The rectangle of the points the loops of makeBitmap sample for an image of
\* the size img.w x img.h: x and y run from 0, whatever img.Bounds().Min is.
sampledBounds(img, rotate) ==
    LET r == normRotate(rotate)
        width  == IF r \in {90, 270} THEN img.h ELSE img.w
        height == IF r \in {90, 270} THEN img.w ELSE img.h
    IN  [w |-> width, h |-> height, x0 |-> 0, y0 |-> 0]

\* image.Rectangle.Intersect of [x0,x1) x [y0,y1) with the bounds of an image
\* whose origin is (0,0), as SubImage does: the bounds of the sub-image (its
\* size, and its Min as x0, y0).
SubImageBounds(img, x0, y0, x1, y1) ==
    LET ax == Max(x0, 0)
        ay == Max(y0, 0)
        bx == Min(x1, img.w)
        by == Min(y1, img.h)
    IN  IF ax >= bx \/ ay >= by THEN [w |-> 0, h |-> 0, x0 |-> 0, y0 |-> 0]
        ELSE [w |-> bx - ax, h |-> by - ay, x0 |-> ax, y0 |-> ay]

\* The rectangle FillPanel cuts out for the button at (row, col).
PanelRect(img, row, col) ==
    SubImageBounds(img,
        PanelWidth - ButtonSize - col * ButtonSize - col * Spacer,
        row * ButtonSize + row * Spacer,
        PanelWidth - 1 - col * ButtonSize - col * Spacer,
        ButtonSize - 1 + row * ButtonSize + row * Spacer)

\* cropCenter to the panel when the canvas is larger than the panel.
PanelCanvas(img) ==
    IF img.w > PanelWidth \/ img.h > PanelHeight
    THEN [w |-> Min(img.w, PanelWidth), h |-> Min(img.h, PanelHeight)]
    ELSE img

(* ------------------------------- state -------------------------------- *)

VARIABLES
    info,        \* sd.info: an index into streamdeckDevices
    btnState,    \* sd.btnState: 0..NumButtons-1 -> BtnState
    btnEventCb,  \* sd.btnEventCb: Nil or a callback
    mutex,       \* sd.Mutex: Unlocked, or the goroutine holding it
    closed,      \* whether sd.device.Close() was called on the handle
    wire,        \* every SetFeatureReport / Write call on the handle, in order
    call,        \* each foreground goroutine's call: operation, position, locals
    rpc,         \* the position of the goroutine running sd.read()
    data,        \* read's local: the report stripped of its first byte
    reads,       \* ReadInputPacket calls that returned so far
    spawned,     \* "go sd.btnEventCb(i, btnState)" statements executed, in order
    pending,     \* indices into spawned: callback goroutines not yet run
    delivered,   \* indices into spawned, in the order the callbacks ran
    regs,        \* the callbacks SetBtnEventCb was called with, in the order stored
    enc,         \* a call of makeBitmap on its own: position, arguments, result
    received     \* the << i, state >> each callback run was called with, in order

vars == << info, btnState, btnEventCb, mutex, closed, wire, call,
           rpc, data, reads, spawned, pending, delivered, regs, enc, received >>

sessionVars == << info, btnState, btnEventCb, mutex, closed, regs >>
pollerVars == << rpc, data, reads, spawned, pending, delivered >>

Callers == 1 .. NumCallers

\* The values of mutex: unlocked, or held by a caller or by the poller.
Unlocked == 0
Poller == NumCallers + 1
Buttons == 0 .. (NumButtons - 1)

ButtonCount == streamdeckDevices[info].NumButtons

\* No call of makeBitmap on its own.
NoEnc == [pc |-> "none", img |-> [w |-> 0, h |-> 0, pix |-> << >>],
          rotate |-> 0, out |-> << >>]

\* The zero value of a call's record: no operation started.
NoCall ==
    [op |-> "none", pc |-> "idle", res |-> Nil,
     btnIndex |-> 0, rgb |-> << 0, 0, 0 >>, ev |-> Nil, img |-> [w |-> 0, h |-> 0],
     counter |-> 0, fill |-> 0, idx |-> 0,
     key |-> 0, len |-> 0, off |-> 0, page_no |-> 0, eof |-> 0, at |-> 0,
     spawn |-> 0]

(* ------------------- the foreground call chain (pure) ------------------ *)
(* Each operator maps a call's record to the record at the next point     *)
(* where the goroutine touches shared state or returns to the application.*)

\* A panic unwinds every frame of the call: no function of the package recovers.
Panics(r) == [r EXCEPT !.pc = "done", !.res = "panic"]

\* What follows when FillImage (or the FillColor or ClearBtn that would have
\* called it) returns err, by the public operation running: the error is
\* returned as is, or dropped (WriteText, FillPanel, ClearAllBtns) and the
\* operation's loop goes on.
Returns(r, err) ==
    CASE r.op \in {"FillImage", "FillColor", "ClearBtn"} ->
            [r EXCEPT !.pc = "done", !.res = err]
      [] r.op = "WriteText" -> [r EXCEPT !.pc = "done", !.res = Nil]
      [] r.op = "FillPanel" -> [r EXCEPT !.pc = "panel", !.counter = @ + 1]
      [] r.op = "NewStreamDeck" -> [r EXCEPT !.pc = "clear", !.counter = @ - 1]
      [] r.op = "writeBitmap" -> [r EXCEPT !.pc = "done", !.res = err]

\* FillImage up to sd.Lock(): the index check, then makeBitmap.
FillImage(r, btnIndex, img) ==
    IF checkValidKeyIndex(btnIndex) # Nil
    THEN Returns(r, checkValidKeyIndex(btnIndex))
    ELSE [r EXCEPT !.pc = "lock", !.fill = @ + 1, !.idx = btnIndex,
                   !.key = uint8(btnIndex), !.len = makeBitmapLen(img, FillRotate),
                   !.off = 0, !.page_no = 0, !.eof = 0]

\* The first failing checkRGB of FillColor, or nil.
FillColorCheck(r, g, b) ==
    IF checkRGB(r) # Nil THEN checkRGB(r)
    ELSE IF checkRGB(g) # Nil THEN checkRGB(g)
    ELSE checkRGB(b)

\* FillColor: a ButtonSize x ButtonSize image of the colour, to FillImage.
FillColor(r, btnIndex, red, green, blue) ==
    IF FillColorCheck(red, green, blue) # Nil
    THEN Returns(r, FillColorCheck(red, green, blue))
    ELSE FillImage(r, btnIndex, [w |-> ButtonSize, h |-> ButtonSize])

ClearBtn(r, btnIndex) ==
    IF checkValidKeyIndex(btnIndex) # Nil
    THEN Returns(r, checkValidKeyIndex(btnIndex))
    ELSE FillColor(r, btnIndex, 0, 0, 0)

(* ------------------------------ transport ------------------------------ *)

\* What a Write or SetFeatureReport on the handle can return: success or an
\* error while the handle is open, an error once it is closed.
IOOutcomes == IF closed THEN {FALSE} ELSE BOOLEAN

FeatureEntry(c, kind, ok) ==
    [kind |-> kind, by |-> c, fill |-> 0, btnIndex |-> 0, page |-> 0, eof |-> 0, key |-> 0,
     off |-> 0, n |-> 0, total |-> 0, size |-> 17, hdr |-> << >>, ok |-> ok]

\* len(out) - 16: the bytes of buf one frame takes.
PayloadCap == FrameLen - PayloadOffset

\* copy(out[16:], buf): the number of bytes copied.
copyLen(rem) == Min(rem, PayloadCap)

\* Mutant: the frame's header forgotten, "len(buf) <= len(out)".
isLastChunkNoHeader(rem) == rem <= FrameLen

\* Mutant: "<" for "<=": a buffer that fills the frame is not the last one.
isLastChunkStrict(rem) == rem < PayloadCap

\* "if len(buf) <= (len(out) - 16)": the frame is the last one.
isLastChunk(rem) == rem <= PayloadCap

\* The frame one iteration of writeBitmap's loop hands to Write (hdr: out[0]
\* and out[1], set once before the loop).
FrameEntry(c, r, ok) ==
    [kind |-> "frame", by |-> c, fill |-> r.fill, btnIndex |-> r.idx,
     page |-> r.page_no,
     eof |-> IF isLastChunk(r.len - r.off) THEN 1 ELSE r.eof,
     key |-> uint8(r.key + 1),
     off |-> r.off, n |-> copyLen(r.len - r.off), total |-> r.len,
     size |-> FrameLen, hdr |-> << 2, 1 >>, ok |-> ok]

(* --------------------------- foreground calls -------------------------- *)

Begin(c, op) == [call[c] EXCEPT !.op = op]

CallFillImage(c, btnIndex, img) ==
    /\ call[c].pc = "idle"
    /\ call' = [call EXCEPT ![c] =
                  FillImage([Begin(c, "FillImage") EXCEPT !.btnIndex = btnIndex, !.img = img],
                            btnIndex, img)]
    /\ UNCHANGED << enc, received, sessionVars, wire, pollerVars >>

CallFillColor(c, btnIndex, r, g, b) ==
    /\ call[c].pc = "idle"
    /\ call' = [call EXCEPT ![c] =
                  FillColor([Begin(c, "FillColor") EXCEPT !.btnIndex = btnIndex,
                                                         !.rgb = << r, g, b >>],
                            btnIndex, r, g, b)]
    /\ UNCHANGED << enc, received, sessionVars, wire, pollerVars >>

CallClearBtn(c, btnIndex) ==
    /\ call[c].pc = "idle"
    /\ call' = [call EXCEPT ![c] =
                  ClearBtn([Begin(c, "ClearBtn") EXCEPT !.btnIndex = btnIndex], btnIndex)]
    /\ UNCHANGED << enc, received, sessionVars, wire, pollerVars >>

\* WriteText: the index check, the text drawn (drawErr: DrawString fails), then
\* FillImage with its result dropped.
CallWriteText(c, btnIndex, drawErr) ==
    /\ call[c].pc = "idle"
    /\ call' = [call EXCEPT ![c] =
                  LET r == [Begin(c, "WriteText") EXCEPT !.btnIndex = btnIndex]
                  IN  IF checkValidKeyIndex(btnIndex) # Nil
                      THEN [r EXCEPT !.pc = "done", !.res = checkValidKeyIndex(btnIndex)]
                      ELSE IF drawErr
                      THEN [r EXCEPT !.pc = "done", !.res = "draw error"]
                      ELSE FillImage(r, btnIndex, [w |-> ButtonSize, h |-> ButtonSize])]
    /\ UNCHANGED << enc, received, sessionVars, wire, pollerVars >>

\* FillPanel with an image of the panel's width (no resize): cropped to the
\* panel, then the loop over rows and columns starts with counter 0.
CallFillPanel(c, img) ==
    /\ call[c].pc = "idle"
    /\ img.w = PanelWidth
    /\ call' = [call EXCEPT ![c] =
                  [Begin(c, "FillPanel") EXCEPT !.img = PanelCanvas(img),
                                                !.pc = "panel", !.counter = 0]]
    /\ UNCHANGED << enc, received, sessionVars, wire, pollerVars >>

\* One iteration of FillPanel's loops: FillImage(counter, SubImage(rect)), or
\* "return nil" after the last one.
PanelStep(c) ==
    /\ call[c].pc = "panel"
    /\ LET r == call[c]
           row == r.counter \div NumButtonColumns
           col == r.counter % NumButtonColumns
       IN  call' = [call EXCEPT ![c] =
                      IF r.counter >= NumButtonRows * NumButtonColumns
                      THEN [r EXCEPT !.pc = "done", !.res = Nil]
                      ELSE FillImage(r, r.counter, PanelRect(r.img, row, col))]
    /\ UNCHANGED << enc, received, sessionVars, wire, pollerVars >>

\* Mutant: FillImage goes on to writeBitmap without waiting for the lock.
FillImageNoLock(c) ==
    /\ call[c].pc = "lock"
    /\ mutex' = c
    /\ call' = [call EXCEPT ![c].pc = "write"]
    /\ UNCHANGED << enc, received, info, btnState, btnEventCb, closed, regs, wire, pollerVars >>

\* sd.Lock() of FillImage.
FillImageLock(c) ==
    /\ call[c].pc = "lock"
    /\ mutex = Unlocked
    /\ mutex' = c
    /\ call' = [call EXCEPT ![c].pc = "write"]
    /\ UNCHANGED << enc, received, info, btnState, btnEventCb, closed, regs, wire, pollerVars >>

\* Mutant: Unlock is not deferred, and the panic of a failed Write leaves
\* FillImage before it.
WriteFrameNoDefer(c) ==
    /\ call[c].pc = "write"
    /\ \E ok \in IOOutcomes :
         LET r == call[c]
             rem == r.len - r.off
             sent == [r EXCEPT !.off = @ + copyLen(rem),
                               !.page_no = uint8(@ + 1),
                               !.eof = IF isLastChunk(rem) THEN 1 ELSE @]
         IN  /\ wire' = Append(wire, FrameEntry(c, r, ok))
             /\ IF ~ok
                THEN /\ call' = [call EXCEPT ![c] = Panics(sent)]
                     /\ mutex' = mutex
                ELSE IF isLastChunk(rem)
                THEN /\ call' = [call EXCEPT ![c] = Returns(sent, Nil)]
                     /\ mutex' = Unlocked
                ELSE /\ call' = [call EXCEPT ![c] = sent]
                     /\ mutex' = mutex
    /\ UNCHANGED << enc, received, info, btnState, btnEventCb, closed, regs, pollerVars >>

\* One iteration of writeBitmap's loop: the frame is built and written; a
\* failed Write panics, the last frame returns nil; either way FillImage's
\* deferred Unlock runs.
WriteFrame(c) ==
    /\ call[c].pc = "write"
    /\ \E ok \in IOOutcomes :
         LET r == call[c]
             rem == r.len - r.off
             sent == [r EXCEPT !.off = @ + copyLen(rem),
                               !.page_no = uint8(@ + 1),
                               !.eof = IF isLastChunk(rem) THEN 1 ELSE @]
         IN  /\ wire' = Append(wire, FrameEntry(c, r, ok))
             /\ IF ~ok
                THEN /\ call' = [call EXCEPT ![c] = Panics(sent)]
                     /\ mutex' = Unlocked
                ELSE IF isLastChunk(rem)
                THEN /\ call' = [call EXCEPT ![c] = Returns(sent, Nil)]
                     /\ mutex' = Unlocked
                ELSE /\ call' = [call EXCEPT ![c] = sent]
                     /\ mutex' = mutex
    /\ UNCHANGED << enc, received, info, btnState, btnEventCb, closed, regs, pollerVars >>

\* Reset: one feature report, its error returned.
CallReset(c) ==
    /\ call[c].pc = "idle"
    /\ \E ok \in IOOutcomes :
         /\ wire' = Append(wire, FeatureEntry(c, "reset", ok))
         /\ call' = [call EXCEPT ![c] =
                       [Begin(c, "Reset") EXCEPT !.pc = "done",
                           !.res = IF ok THEN Nil ELSE "transport error"]]
    /\ UNCHANGED << enc, received, sessionVars, pollerVars >>

\* SetBrightness: one feature report, its error returned.
CallSetBrightness(c) ==
    /\ call[c].pc = "idle"
    /\ \E ok \in IOOutcomes :
         /\ wire' = Append(wire, FeatureEntry(c, "brightness", ok))
         /\ call' = [call EXCEPT ![c] =
                       [Begin(c, "SetBrightness") EXCEPT !.pc = "done",
                           !.res = IF ok THEN Nil ELSE "transport error"]]
    /\ UNCHANGED << enc, received, sessionVars, pollerVars >>

\* SetBtnEventCb: the call, sd.Lock(), then the assignment and the deferred Unlock.
CallSetBtnEventCb(c, ev) ==
    /\ call[c].pc = "idle"
    /\ call' = [call EXCEPT ![c] =
                  [Begin(c, "SetBtnEventCb") EXCEPT !.pc = "cbLock", !.ev = ev]]
    /\ UNCHANGED << enc, received, sessionVars, wire, pollerVars >>

SetBtnEventCbLock(c) ==
    /\ call[c].pc = "cbLock"
    /\ mutex = Unlocked
    /\ mutex' = c
    /\ call' = [call EXCEPT ![c].pc = "cbSet"]
    /\ UNCHANGED << enc, received, info, btnState, btnEventCb, closed, regs, wire, pollerVars >>

\* Mutant: a callback already registered is kept.
StoredCbFirstWins(old, ev) == IF old # Nil THEN old ELSE ev

\* The callback reference SetBtnEventCb stores.
StoredCb(old, ev) == ev

SetBtnEventCbSet(c) ==
    /\ call[c].pc = "cbSet"
    /\ btnEventCb' = StoredCb(btnEventCb, call[c].ev)
    /\ regs' = Append(regs, call[c].ev)
    /\ mutex' = Unlocked
    /\ call' = [call EXCEPT ![c].pc = "done", ![c].res = Nil]
    /\ UNCHANGED << enc, received, info, btnState, closed, wire, pollerVars >>

\* Close: the call, sd.Lock(), sd.Unlock(), then sd.device.Close().
CallClose(c) ==
    /\ call[c].pc = "idle"
    /\ call' = [call EXCEPT ![c] = [Begin(c, "Close") EXCEPT !.pc = "closeLock"]]
    /\ UNCHANGED << enc, received, sessionVars, wire, pollerVars >>

CloseLock(c) ==
    /\ call[c].pc = "closeLock"
    /\ mutex = Unlocked
    /\ mutex' = c
    /\ call' = [call EXCEPT ![c].pc = "closeUnlock"]
    /\ UNCHANGED << enc, received, info, btnState, btnEventCb, closed, regs, wire, pollerVars >>

CloseUnlock(c) ==
    /\ call[c].pc = "closeUnlock"
    /\ mutex' = Unlocked
    /\ call' = [call EXCEPT ![c].pc = "closeDevice"]
    /\ UNCHANGED << enc, received, info, btnState, btnEventCb, closed, regs, wire, pollerVars >>

\* "return sd.device.Close()" (at: the number of reads the poller had made
\* when the handle was closed, kept for the history).
CloseDevice(c) ==
    /\ call[c].pc = "closeDevice"
    /\ closed' = TRUE
    /\ call' = [call EXCEPT ![c].pc = "done", ![c].res = Nil, ![c].at = reads]
    /\ UNCHANGED << enc, received, info, btnState, btnEventCb, mutex, regs, wire, pollerVars >>

(* ------------------------------ the poller ----------------------------- *)

\* n zero bytes.
Zeros(n) == [i \in 1 .. n |-> 0]

\* The input reports ReadInputPacket returns in the model: no byte at all, the
\* marker alone, button 0 released, pressed, and pressed with another non-zero
\* byte, the last button (14) pressed, a byte past the last button, and
\* reports whose first byte is not 1.
Reports ==
    { << >>, << 1 >>,
      << 1, 0 >>, << 1, 1 >>, << 1, 2 >>,
      << 1 >> \o Zeros(NumButtons - 1) \o << 1 >>,
      << 1 >> \o Zeros(NumButtons) \o << 1 >>,
      << 0, 1 >>, << 2, 1, 1 >> }

\* Mutant: a failed read ends the loop.
PollReadErrorStops ==
    /\ rpc = "read"
    /\ reads < MaxReads
    /\ reads' = reads + 1
    /\ data' = << >>
    /\ rpc' = "stopped"
    /\ UNCHANGED << enc, received, sessionVars, wire, call, spawned, pending, delivered >>

\* ReadInputPacket returns an error (a timeout, a closed handle) and no data:
\* continue.
PollReadError ==
    /\ rpc = "read"
    /\ reads < MaxReads
    /\ reads' = reads + 1
    /\ data' = << >>
    /\ UNCHANGED << enc, received, sessionVars, wire, call, rpc, spawned, pending, delivered >>

\* ReadInputPacket returns a report.
PollRead(report) ==
    /\ rpc = "read"
    /\ reads < MaxReads
    /\ ~closed
    /\ reads' = reads + 1
    /\ data' = report
    /\ rpc' = "check"
    /\ UNCHANGED << enc, received, sessionVars, wire, call, spawned, pending, delivered >>

\* Mutant: only a zero first byte is dropped.
wrongMarkerZeroOnly(report) == report[1] = 0

\* "data[0] != 1": the report is dropped.
wrongMarker(report) == report[1] # 1

\* "if data[0] != 1 { continue }; data = data[1:]": data[0] of an empty report
\* panics (index out of range), a report whose first byte is not 1 is dropped,
\* any other is stripped of that byte and goes on to sd.Lock().
PollCheck ==
    /\ rpc = "check"
    /\ IF Len(data) = 0
       THEN rpc' = "panic" /\ data' = data
       ELSE IF wrongMarker(data)
       THEN rpc' = "read" /\ data' = data
       ELSE rpc' = "lock" /\ data' = Tail(data)
    /\ UNCHANGED << enc, received, sessionVars, wire, call, reads, spawned, pending, delivered >>

\* Mutant: the poller goes on to its loop without taking the lock.
PollLockSkipped ==
    /\ rpc = "lock"
    /\ rpc' = "process"
    /\ UNCHANGED << enc, received, info, btnState, btnEventCb, mutex, closed, regs, wire, call,
                    data, reads, spawned, pending, delivered >>

PollLock ==
    /\ rpc = "lock"
    /\ mutex = Unlocked
    /\ mutex' = Poller
    /\ rpc' = "process"
    /\ UNCHANGED << enc, received, info, btnState, btnEventCb, closed, regs, wire, call,
                    data, reads, spawned, pending, delivered >>

\* The positions the loop of read visits: "for i, b := range data", left at
\* the first i >= len(sd.btnState).
Visited(d) == 0 .. (Min(Len(d), NumButtons) - 1)

\* "sd.btnState[i] != itob(int(b))": the buttons whose stored state differs
\* from the state byte.
Changed(st, d) == { i \in Visited(d) : st[i] # itob(d[i + 1]) }

\* The callback the loop hands a change to: sd.btnEventCb as it is then.
DispatchCb == btnEventCb

\* The "go sd.btnEventCb(i, btnState)" statements of one pass of the loop, in
\* the order of i: the button, the state stored for it and the callback, with
\* the number of the read and the number of callbacks stored until then.
RECURSIVE Spawns(_, _, _, _)
Spawns(st, d, i, cb) ==
    IF i \notin Visited(d) THEN << >>
    ELSE (IF i \in Changed(st, d) /\ cb # Nil
          THEN << [btn |-> i, state |-> itob(d[i + 1]), cb |-> cb,
                   read |-> reads, after |-> Len(regs)] >>
          ELSE << >>) \o Spawns(st, d, i + 1, cb)

\* Mutant: the callbacks are called in the loop, under the lock ("go" left
\* out): the poller goes on only when there was nothing to call.
PollProcessSync ==
    /\ rpc = "process"
    /\ btnState' = [i \in Buttons |->
                      IF i \in Changed(btnState, data) THEN itob(data[i + 1])
                      ELSE btnState[i]]
    /\ spawned' = spawned \o Spawns(btnState, data, 0, DispatchCb)
    /\ pending' = pending \cup (Len(spawned) + 1 .. Len(spawned'))
    /\ mutex' = IF spawned' = spawned THEN Unlocked ELSE Poller
    /\ rpc' = IF spawned' = spawned THEN "read" ELSE "callback"
    /\ data' = << >>
    /\ UNCHANGED << enc, received, info, btnEventCb, closed, regs, wire, call, reads, delivered >>

\* The loop of read under the lock, and sd.Unlock(): every changed button's
\* state is stored and, with a callback registered, a goroutine is started.
\* (data is dead from here to the next read, which assigns it: the model
\* empties it.)
PollProcess ==
    /\ rpc = "process"
    /\ btnState' = [i \in Buttons |->
                      IF i \in Changed(btnState, data) THEN itob(data[i + 1])
                      ELSE btnState[i]]
    /\ spawned' = spawned \o Spawns(btnState, data, 0, DispatchCb)
    /\ pending' = pending \cup (Len(spawned) + 1 .. Len(spawned'))
    /\ mutex' = Unlocked
    /\ rpc' = "read"
    /\ data' = << >>
    /\ UNCHANGED << enc, received, info, btnEventCb, closed, regs, wire, call, reads, delivered >>

\* Mutant: the callback is given the state the button has when it runs.
callbackArgsAtRun(k) == << spawned[k].btn, btnState[spawned[k].btn] >>

\* What the callback of goroutine k is called with: i and btnState as the
\* go statement evaluated them.
callbackArgs(k) == << spawned[k].btn, spawned[k].state >>

\* A goroutine started by the poller runs the callback it was given.
CallbackRun(k) ==
    /\ k \in pending
    /\ pending' = pending \ {k}
    /\ delivered' = Append(delivered, k)
    /\ received' = Append(received, callbackArgs(k))
    /\ UNCHANGED << enc, sessionVars, wire, call, rpc, data, reads, spawned >>

(* The callback is the application's code. Besides returning at once      *)
(* (CallbackRun) it may never return, or call the session it was          *)
(* registered on. Goroutine k of the poller then runs as c; spawn is k.   *)

\* The callback never returns.
CallbackBlocks(c, k) ==
    /\ k \in pending
    /\ call[c].pc = "idle"
    /\ pending' = pending \ {k}
    /\ call' = [call EXCEPT ![c] =
                  [Begin(c, "callback") EXCEPT !.pc = "blocked", !.spawn = k]]
    /\ UNCHANGED << enc, received, sessionVars, wire, rpc, data, reads, spawned, delivered >>

\* The callback calls sd.FillImage(btnIndex, img) for the button it was called for.
CallbackFillImage(c, k, img) ==
    /\ k \in pending
    /\ call[c].pc = "idle"
    /\ pending' = pending \ {k}
    /\ call' = [call EXCEPT ![c] =
                  FillImage([Begin(c, "FillImage") EXCEPT !.btnIndex = spawned[k].btn,
                                                         !.img = img, !.spawn = k],
                            spawned[k].btn, img)]
    /\ UNCHANGED << enc, received, sessionVars, wire, rpc, data, reads, spawned, delivered >>

\* The callback calls sd.SetBtnEventCb(ev).
CallbackSetBtnEventCb(c, k, ev) ==
    /\ k \in pending
    /\ call[c].pc = "idle"
    /\ pending' = pending \ {k}
    /\ call' = [call EXCEPT ![c] =
                  [Begin(c, "SetBtnEventCb") EXCEPT !.pc = "cbLock", !.ev = ev,
                                                   !.spawn = k]]
    /\ UNCHANGED << enc, received, sessionVars, wire, rpc, data, reads, spawned, delivered >>

(* ---------------------------- NewStreamDeck ---------------------------- *)
(* From the StreamDeck literal (line 171) on: the device was found and     *)
(* opened, sd.btnState holds NumButtons zero values (BtnPressed is 0).     *)

\* "for i := range sd.btnState { sd.btnState[i] = BtnReleased }"
OpenInitButtons(c) ==
    /\ call[c].pc = "init"
    /\ btnState' = [i \in Buttons |-> "BtnReleased"]
    /\ call' = [call EXCEPT ![c].pc = "reset"]
    /\ UNCHANGED << enc, received, info, btnEventCb, mutex, closed, regs, wire, pollerVars >>

\* "err = sd.Reset(); if err != nil { return nil, err }"
OpenReset(c) ==
    /\ call[c].pc = "reset"
    /\ \E ok \in IOOutcomes :
         /\ wire' = Append(wire, FeatureEntry(c, "reset", ok))
         /\ call' = [call EXCEPT ![c] =
                       IF ok THEN [@ EXCEPT !.pc = "brightness"]
                       ELSE [@ EXCEPT !.pc = "done", !.res = "transport error"]]
    /\ UNCHANGED << enc, received, sessionVars, pollerVars >>

\* What NewStreamDeck does with the error of sd.SetBrightness(100): the
\* position it goes to.
AfterBrightness(ok) == "clear"

\* "sd.SetBrightness(100)", then ClearAllBtns starts at ButtonCount()-1.
OpenSetBrightness(c) ==
    /\ call[c].pc = "brightness"
    /\ \E ok \in IOOutcomes :
         /\ wire' = Append(wire, FeatureEntry(c, "brightness", ok))
         /\ call' = [call EXCEPT ![c] =
                       IF AfterBrightness(ok) = "clear"
                       THEN [@ EXCEPT !.pc = "clear", !.counter = ButtonCount - 1]
                       ELSE [@ EXCEPT !.pc = "done", !.res = "transport error"]]
    /\ UNCHANGED << enc, received, sessionVars, pollerVars >>

\* One iteration of ClearAllBtns: sd.ClearBtn(i), its error dropped; after the
\* last one, NewStreamDeck goes on to start the poller.
OpenClearStep(c) ==
    /\ call[c].pc = "clear"
    /\ call' = [call EXCEPT ![c] =
                  IF call[c].counter >= 0
                  THEN ClearBtn(call[c], call[c].counter)
                  ELSE [call[c] EXCEPT !.pc = "go"]]
    /\ UNCHANGED << enc, received, sessionVars, wire, pollerVars >>

\* "go sd.read(); return sd, nil"
OpenStartPoller(c) ==
    /\ call[c].pc = "go"
    /\ rpc' = "read"
    /\ call' = [call EXCEPT ![c].pc = "done", ![c].res = Nil]
    /\ UNCHANGED << enc, received, sessionVars, wire, data, reads, spawned, pending, delivered >>

(* --------------------------- makeBitmap alone -------------------------- *)

\* makeBitmap is called with the image and the angle and returns the bytes.
Encode ==
    /\ enc.pc = "call"
    /\ enc' = [enc EXCEPT !.pc = "returned", !.out = makeBitmap(enc.img, enc.rotate)]
    /\ UNCHANGED << received, sessionVars, wire, call, pollerVars >>

(* -------------------------- writeBitmap alone -------------------------- *)

\* writeBitmap called with a buffer of any length by a goroutine that holds
\* the lock, as FillImage calls it.
CallWriteBitmap(c, btnIndex, len) ==
    /\ call[c].pc = "idle"
    /\ mutex = Unlocked
    /\ mutex' = c
    /\ call' = [call EXCEPT ![c] =
                  [Begin(c, "writeBitmap") EXCEPT
                      !.pc = "write", !.fill = @ + 1, !.btnIndex = btnIndex,
                      !.idx = btnIndex, !.key = uint8(btnIndex), !.len = len,
                      !.off = 0, !.page_no = 0, !.eof = 0]]
    /\ UNCHANGED << enc, received, info, btnState, btnEventCb, closed, regs, wire, pollerVars >>

(* --------------------------- specifications ---------------------------- *)

\* The inputs the specifications draw from.
MaxChunks == 2
BufferLens == { k * PayloadCap + d : k \in 0 .. MaxChunks, d \in {0, 1, PayloadCap - 1} }
KeyIndexes == {-1, 0, 5, 6, 14, 15, 16}
ColorValues == {-1, 0, 255, 256}
Images == { [w |-> 0, h |-> 0], [w |-> 1, h |-> 1], [w |-> 6, h |-> 53],
            [w |-> 18, h |-> 18], [w |-> 72, h |-> 72], [w |-> ButtonSize, h |-> ButtonSize] }
PanelImages == { [w |-> PanelWidth, h |-> x] : x \in {1, 100, PanelHeight, PanelHeight + 10} }
SmallImages == { [w |-> 0, h |-> 0], [w |-> 18, h |-> 18], [w |-> 26, h |-> 26] }
SessionIndexes == {0, 1}
Callbacks == {"cb1", "cb2"}

\* A session as NewStreamDeck returns it: the buttons released, no callback,
\* the lock free, the poller reading; the record of the transport starts here.
InitSession ==
    /\ info \in 1 .. Len(streamdeckDevices)
    /\ btnState = [i \in Buttons |-> "BtnReleased"]
    /\ btnEventCb = Nil
    /\ mutex = Unlocked
    /\ closed = FALSE
    /\ wire = << >>
    /\ call = [c \in Callers |-> NoCall]
    /\ rpc = "read"
    /\ data = << >>
    /\ reads = 0
    /\ spawned = << >>
    /\ pending = {}
    /\ delivered = << >>
    /\ received = << >>
    /\ regs = << >>
    /\ enc = NoEnc

Init == InitSession

\* The session under concurrent foreground use: every caller makes one call
\* that writes to the device or closes it.
Next ==
    \/ \E c \in Callers, i \in SessionIndexes, img \in SmallImages : CallFillImage(c, i, img)
    \/ \E c \in Callers : FillImageLock(c)
    \/ \E c \in Callers : WriteFrame(c)
    \/ \E c \in Callers : CallReset(c)
    \/ \E c \in Callers : CallSetBrightness(c)
    \/ \E c \in Callers : CallClose(c)
    \/ \E c \in Callers : CloseLock(c)
    \/ \E c \in Callers : CloseUnlock(c)
    \/ \E c \in Callers : CloseDevice(c)

Spec == Init /\ [][Next]_vars

\* The poller, the callback goroutines it starts and the callers that
\* register callbacks.
NextPoll ==
    \/ \E c \in Callers, ev \in Callbacks : CallSetBtnEventCb(c, ev)
    \/ \E c \in Callers : SetBtnEventCbLock(c)
    \/ \E c \in Callers : SetBtnEventCbSet(c)
    \/ PollReadError
    \/ \E report \in Reports : PollRead(report)
    \/ PollCheck
    \/ PollLock
    \/ PollProcess
    \/ \E k \in pending : CallbackRun(k)

SpecPoll == Init /\ [][NextPoll]_vars

\* One foreground goroutine making one call of a fill operation, with every
\* argument and every outcome of the transport's Write.
OpsCaller == CHOOSE c \in Callers : \A d \in Callers : c <= d

NextOps ==
    \/ \E i \in KeyIndexes, img \in Images : CallFillImage(OpsCaller, i, img)
    \/ \E i \in KeyIndexes, r \in ColorValues, g \in ColorValues, b \in ColorValues :
          CallFillColor(OpsCaller, i, r, g, b)
    \/ \E i \in KeyIndexes : CallClearBtn(OpsCaller, i)
    \/ \E i \in KeyIndexes, drawErr \in BOOLEAN : CallWriteText(OpsCaller, i, drawErr)
    \/ \E img \in PanelImages : CallFillPanel(OpsCaller, img)
    \/ \E i \in {0, 14, 15}, len \in BufferLens : CallWriteBitmap(OpsCaller, i, len)
    \/ PanelStep(OpsCaller)
    \/ FillImageLock(OpsCaller)
    \/ WriteFrame(OpsCaller)

SpecOps == Init /\ [][NextOps]_vars

\* NewStreamDeck from the StreamDeck literal on.
InitOpen ==
    /\ info \in 1 .. Len(streamdeckDevices)
    /\ btnState = [i \in Buttons |-> "BtnPressed"]
    /\ btnEventCb = Nil
    /\ mutex = Unlocked
    /\ closed = FALSE
    /\ wire = << >>
    /\ call = [c \in Callers |->
                 IF c = OpsCaller THEN [NoCall EXCEPT !.op = "NewStreamDeck", !.pc = "init"]
                 ELSE NoCall]
    /\ rpc = "off"
    /\ data = << >>
    /\ reads = 0
    /\ spawned = << >>
    /\ pending = {}
    /\ delivered = << >>
    /\ received = << >>
    /\ regs = << >>
    /\ enc = NoEnc

NextOpen ==
    \/ OpenInitButtons(OpsCaller)
    \/ OpenReset(OpsCaller)
    \/ OpenSetBrightness(OpsCaller)
    \/ OpenClearStep(OpsCaller)
    \/ FillImageLock(OpsCaller)
    \/ WriteFrame(OpsCaller)
    \/ OpenStartPoller(OpsCaller)

SpecOpen == InitOpen /\ [][NextOpen]_vars

\* makeBitmap on every image of up to GridSize x GridSize pixels of two
\* colours, with the angles of the switch, negative angles and angles that
\* are no case of the switch.
GridSize == 2
PixelValues == { << 255, 0, 0 >>, << 1, 128, 254 >> }
Angles == { 0, 90, 180, 270, -90, -180, -270, -360, -450, 360, 450, 45, -45 }
GridImages ==
    UNION { { [w |-> w, h |-> h, pix |-> f] :
                f \in [ (0 .. w - 1) \X (0 .. h - 1) -> PixelValues ] } :
            w \in 0 .. GridSize, h \in 0 .. GridSize }

InitBitmap ==
    /\ info = 1
    /\ btnState = [i \in Buttons |-> "BtnReleased"]
    /\ btnEventCb = Nil
    /\ mutex = Unlocked
    /\ closed = FALSE
    /\ wire = << >>
    /\ call = [c \in Callers |-> NoCall]
    /\ rpc = "read"
    /\ data = << >>
    /\ reads = 0
    /\ spawned = << >>
    /\ pending = {}
    /\ delivered = << >>
    /\ received = << >>
    /\ regs = << >>
    /\ \E img \in GridImages, rotate \in Angles :
          enc = [pc |-> "call", img |-> img, rotate |-> rotate, out |-> << >>]

NextBitmap == Encode

SpecBitmap == InitBitmap /\ [][NextBitmap]_vars

\* FillImage with images of any size, which it does not check: a button's
\* image, and one whose bitmap takes more than 256 frames.
LargeImages == { [w |-> ButtonSize, h |-> ButtonSize], [w |-> 300, h |-> 300] }

NextLarge ==
    \/ \E i \in SessionIndexes, img \in LargeImages : CallFillImage(OpsCaller, i, img)
    \/ FillImageLock(OpsCaller)
    \/ WriteFrame(OpsCaller)

SpecLarge == Init /\ [][NextLarge]_vars

\* One foreground goroutine making one call of any operation of the session,
\* valid or not, with the transport failing or not, while the poller reads
\* reports of button 0 and callbacks run.
SessionReports == { << 1, 0 >>, << 1, 1 >> }
SessionImages == { [w |-> 18, h |-> 18] }
SessionPanels == { [w |-> PanelWidth, h |-> 1] }
SessionColors == { 255, 256 }

NextSession ==
    \/ \E i \in {0, 16}, img \in SessionImages : CallFillImage(OpsCaller, i, img)
    \/ \E i \in {0, 16}, v \in SessionColors : CallFillColor(OpsCaller, i, v, 0, 0)
    \/ \E i \in {0, 16} : CallClearBtn(OpsCaller, i)
    \/ \E img \in SessionPanels : CallFillPanel(OpsCaller, img)
    \/ PanelStep(OpsCaller)
    \/ FillImageLock(OpsCaller)
    \/ WriteFrame(OpsCaller)
    \/ CallReset(OpsCaller)
    \/ CallSetBrightness(OpsCaller)
    \/ \E ev \in Callbacks : CallSetBtnEventCb(OpsCaller, ev)
    \/ SetBtnEventCbLock(OpsCaller)
    \/ SetBtnEventCbSet(OpsCaller)
    \/ CallClose(OpsCaller)
    \/ CloseLock(OpsCaller)
    \/ CloseUnlock(OpsCaller)
    \/ CloseDevice(OpsCaller)
    \/ PollReadError
    \/ \E report \in SessionReports : PollRead(report)
    \/ PollCheck
    \/ PollLock
    \/ PollProcess
    \/ \E k \in pending : CallbackRun(k)

SpecSession == Init /\ [][NextSession]_vars

\* The poller while callers close the session.
NextClose ==
    \/ \E c \in Callers : CallClose(c)
    \/ \E c \in Callers : CloseLock(c)
    \/ \E c \in Callers : CloseUnlock(c)
    \/ \E c \in Callers : CloseDevice(c)
    \/ PollReadError
    \/ \E report \in Reports : PollRead(report)
    \/ PollCheck
    \/ PollLock
    \/ PollProcess

SpecClose == Init /\ [][NextClose]_vars

\* A session (of the first device of the list) with a callback registered,
\* the poller, and callbacks that return, never return, or call FillImage or
\* SetBtnEventCb on the session.
ReentrantReports == { << 1, 0 >>, << 1, 1 >> }
ReentrantImages == { [w |-> 18, h |-> 18] }

InitReentrant ==
    /\ info = 1
    /\ btnState = [i \in Buttons |-> "BtnReleased"]
    /\ btnEventCb = "cb1"
    /\ mutex = Unlocked
    /\ closed = FALSE
    /\ wire = << >>
    /\ call = [c \in Callers |-> NoCall]
    /\ rpc = "read"
    /\ data = << >>
    /\ reads = 0
    /\ spawned = << >>
    /\ pending = {}
    /\ delivered = << >>
    /\ received = << >>
    /\ regs = << "cb1" >>
    /\ enc = NoEnc

NextReentrant ==
    \/ PollReadError
    \/ \E report \in ReentrantReports : PollRead(report)
    \/ PollCheck
    \/ PollLock
    \/ PollProcess
    \/ \E k \in pending : CallbackRun(k)
    \/ \E c \in Callers, k \in pending : CallbackBlocks(c, k)
    \/ \E c \in Callers, k \in pending, img \in ReentrantImages : CallbackFillImage(c, k, img)
    \/ \E c \in Callers, k \in pending : CallbackSetBtnEventCb(c, k, "cb2")
    \/ \E c \in Callers : FillImageLock(c)
    \/ \E c \in Callers : WriteFrame(c)
    \/ \E c \in Callers : SetBtnEventCbLock(c)
    \/ \E c \in Callers : SetBtnEventCbSet(c)

\* Fair scheduling: a goroutine that can run does run, and a goroutine
\* waiting in Lock gets the lock if it is free again and again (sync.Mutex
\* hands the lock to a waiter that has waited long). Nothing is assumed of the
\* device sending reports or of what the callback chooses to do.
FairReentrant ==
    /\ WF_vars(PollCheck)
    /\ SF_vars(PollLock)
    /\ WF_vars(PollProcess)
    /\ \A c \in Callers :
          /\ SF_vars(FillImageLock(c))
          /\ WF_vars(WriteFrame(c))
          /\ SF_vars(SetBtnEventCbLock(c))
          /\ WF_vars(SetBtnEventCbSet(c))

SpecReentrant == InitReentrant /\ [][NextReentrant]_vars /\ FairReentrant

(* ------------------------------- claims -------------------------------- *)

Last(q) == q[Len(q)]

\* The frames the transport recorded for the f-th FillImage (or writeBitmap)
\* of caller c, in the order written.
FramesOf(c, f) ==
    LET Mine(e) == e.kind = "frame" /\ e.by = c /\ e.fill = f
    IN  SelectSeq(wire, Mine)

\* The f-th fill of caller c has ended, and every Write of it succeeded.
FillCompleted(c, f) ==
    /\ f \in 1 .. call[c].fill
    /\ f < call[c].fill \/ call[c].pc \notin {"lock", "write"}
    /\ \A k \in 1 .. Len(FramesOf(c, f)) : FramesOf(c, f)[k].ok

\* The entries of the transport's record written by caller c.
WrittenBy(c) == { k \in 1 .. Len(wire) : wire[k].by = c }

\* C1: for every fill that completes, whatever the length L of the bitmap, the
\* frames written for it carry the bytes 0..L-1 of the bitmap in order, none
\* skipped or repeated, exactly one frame has the end-of-stream flag set, and
\* it is the last frame of the fill.
C1_FramesCarryBitmap ==
    \A c \in Callers : \A f \in 1 .. call[c].fill :
        FillCompleted(c, f) =>
            LET fs == FramesOf(c, f)
            IN  /\ Len(fs) >= 1
                /\ fs[1].off = 0
                /\ \A k \in 1 .. Len(fs) - 1 : fs[k + 1].off = fs[k].off + fs[k].n
                /\ Last(fs).off + Last(fs).n = Last(fs).total
                /\ \A k \in 1 .. Len(fs) : (fs[k].eof = 1) <=> (k = Len(fs))

\* A fill of a bitmap longer than two frames' payload has completed.
C1_Witness ==
    \E c \in Callers : \E f \in 1 .. call[c].fill :
        /\ FillCompleted(c, f)
        /\ Len(FramesOf(c, f)) >= 3
        /\ Last(FramesOf(c, f)).total > 2 * PayloadCap

\* Positions i < j of the record hold frames of the same fill.
SameFill(i, j) ==
    /\ wire[i].kind = "frame" /\ wire[j].kind = "frame"
    /\ wire[i].by = wire[j].by /\ wire[i].fill = wire[j].fill

\* C2: the frames of concurrent FillImage calls are never interleaved: between
\* two frames of one call the transport records no frame of another call; the
\* frames of a call carry the pages 0, 1, 2, ... and every frame carries the
\* call's buttonIndex + 1.
C2_FramesNotInterleaved ==
    /\ \A i \in 1 .. Len(wire) : \A j \in i + 1 .. Len(wire) :
          SameFill(i, j) =>
              \A k \in i + 1 .. j - 1 : wire[k].kind = "frame" => SameFill(i, k)
    /\ \A i \in 1 .. Len(wire) :
          wire[i].kind = "frame" =>
              /\ wire[i].key = wire[i].btnIndex + 1
              /\ wire[i].page = Cardinality({ k \in 1 .. i - 1 : SameFill(k, i) })

\* Two callers have each written a fill of several frames.
C2_Witness ==
    \E i \in 1 .. Len(wire) : \E j \in 1 .. Len(wire) :
        /\ wire[i].kind = "frame" /\ wire[j].kind = "frame"
        /\ wire[i].by # wire[j].by
        /\ wire[i].page >= 1 /\ wire[j].page >= 1
        /\ wire[i].eof = 1 /\ wire[j].eof = 1
        /\ wire[i].ok /\ wire[j].ok

\* C3: every write to the device is serialized under the session's mutex: no
\* reset or brightness feature report reaches the transport between the first
\* frame and the end-of-stream frame of a FillImage call.
C3_WritesSerialized ==
    \A i \in 1 .. Len(wire) : \A j \in i + 1 .. Len(wire) :
        SameFill(i, j) => \A k \in i + 1 .. j - 1 : wire[k].kind = "frame"

\* C4: FillImage with a buttonIndex outside [0, ButtonCount) of the session's
\* device fails with the invalid-index error and writes nothing; with one
\* inside it does not fail with that error.
C4_IndexValidated ==
    \A c \in Callers :
        call[c].op = "FillImage" =>
            IF call[c].btnIndex \in 0 .. ButtonCount - 1
            THEN call[c].res # "invalid key index"
            ELSE /\ call[c].pc = "done"
                 /\ call[c].res = "invalid key index"
                 /\ WrittenBy(c) = {}

\* C5: FillColor with r, g or b outside 0..255 fails with the invalid-colour
\* error, writes nothing and leaves the session as it was; with all three
\* inside it goes on to FillImage (which checks the index and, with a valid
\* one, encodes and takes the lock).
C5_ColorValidated ==
    \A c \in Callers :
        call[c].op = "FillColor" =>
            IF \E k \in 1 .. 3 : call[c].rgb[k] \notin 0 .. 255
            THEN /\ call[c].pc = "done"
                 /\ call[c].res = "invalid color range"
                 /\ call[c].fill = 0
                 /\ wire = << >>
                 /\ mutex = Unlocked /\ btnEventCb = Nil /\ ~closed
                 /\ \A i \in Buttons : btnState[i] = "BtnReleased"
            ELSE /\ call[c].res # "invalid color range"
                 /\ \/ call[c].fill = 1
                    \/ call[c].pc = "done" /\ call[c].res = "invalid key index"

\* FillColor was called with r = 256 and has returned the error.
C5_Witness ==
    \E c \in Callers :
        /\ call[c].op = "FillColor"
        /\ call[c].rgb[1] = 256
        /\ call[c].pc = "done"
        /\ call[c].res = "invalid color range"

\* C6: the callbacks for one button run in the order in which the poller
\* detected the changes (after reports [1,1] and [1,0]: Pressed, then
\* Released).
C6_DeliveredInOrder ==
    \A a \in 1 .. Len(delivered) : \A b \in a + 1 .. Len(delivered) :
        spawned[delivered[a]].btn = spawned[delivered[b]].btn
            => delivered[a] < delivered[b]

\* C7: the last registration wins: every change the poller dispatches goes to
\* the callback most recently stored by SetBtnEventCb at that moment, and no
\* change of one pass of the poller is dispatched twice.
C7_LastRegistrationWins ==
    /\ \A k \in 1 .. Len(spawned) :
          /\ spawned[k].after >= 1
          /\ spawned[k].cb = regs[spawned[k].after]
    /\ \A j \in 1 .. Len(spawned) : \A k \in j + 1 .. Len(spawned) :
          ~ (spawned[j].read = spawned[k].read /\ spawned[j].btn = spawned[k].btn)

\* After cb1 and then cb2 were registered, a change was dispatched to cb2.
C7_Witness ==
    \E k \in 1 .. Len(spawned) :
        /\ regs = << "cb1", "cb2" >>
        /\ spawned[k].after = 2
        /\ spawned[k].cb = "cb2"

\* Some Write or SetFeatureReport of the record failed.
SomeWriteFailed == \E k \in 1 .. Len(wire) : ~ wire[k].ok

\* C8: NewStreamDeck releases the buttons, resets, sets the brightness, clears
\* every button and only then starts the poller; once the reset or a later
\* setup write has failed it has failed with a transport error, with no
\* session returned and no poller started.
C8_OpenFailsOnSetupError ==
    /\ Len(wire) >= 1 =>
          /\ wire[1].kind = "reset"
          /\ \A i \in Buttons : btnState[i] = "BtnReleased"
    /\ Len(wire) >= 2 => wire[2].kind = "brightness"
    /\ \A k \in 3 .. Len(wire) : wire[k].kind = "frame"
    /\ rpc # "off" =>
          \A i \in 0 .. ButtonCount - 1 :
              \E k \in 1 .. Len(wire) :
                  wire[k].kind = "frame" /\ wire[k].btnIndex = i /\ wire[k].eof = 1
    /\ SomeWriteFailed =>
          /\ call[OpsCaller].pc = "done"
          /\ call[OpsCaller].res = "transport error"
          /\ rpc = "off"

\* C9: a failed Write of a frame is the last entry the call leaves in the
\* record (no retry, no further frame), and the operation that made the call
\* has returned an error to its caller (it has neither returned success nor
\* panicked).
C9_WriteFailureReturned ==
    \A c \in Callers : \A k \in WrittenBy(c) :
        (wire[k].kind = "frame" /\ ~ wire[k].ok) =>
            /\ \A j \in WrittenBy(c) : j <= k
            /\ call[c].pc = "done"
            /\ call[c].res \notin {Nil, "panic"}

\* C10: a report whose first byte is not 1 is dropped: the poller's step on it
\* changes no button state, starts no callback, takes no lock and goes back to
\* reading, whatever the other bytes are.
C10_WrongMarkerDropped ==
    [][ (rpc = "check" /\ rpc' # rpc /\ Len(data) > 0 /\ data[1] # 1)
            => /\ rpc' = "read"
               /\ btnState' = btnState
               /\ spawned' = spawned /\ pending' = pending /\ delivered' = delivered
               /\ mutex' = mutex ]_vars

\* A report with a wrong first byte and a non-zero state byte was dropped, and
\* the poller is reading again.
C10_Witness ==
    /\ rpc = "read"
    /\ Len(data) > 1 /\ data[1] # 1 /\ data[2] # 0
    /\ \A i \in Buttons : btnState[i] = "BtnReleased"
    /\ spawned = << >>

WaitsForLock(c) == call[c].spawn > 0 /\ call[c].pc \in {"lock", "cbLock"}

\* C12: the poller never waits for a callback: at the end of its loop over
\* the state bytes it can always go on, it releases the lock and goes back to
\* reading, whatever the callbacks do; under fair scheduling the poller that
\* waits for the lock gets it, and a callback that calls FillImage or
\* SetBtnEventCb on the session gets the lock and ends its call.
C12_CallbackNeverBlocksPoller ==
    /\ [](rpc = "process" => ENABLED PollProcess)
    /\ [][ (rpc = "process" /\ rpc' # rpc) => (rpc' = "read" /\ mutex' = Unlocked) ]_vars
    /\ (rpc = "lock") ~> (rpc = "process")
    /\ (rpc = "process") ~> (rpc = "read")
    /\ \A c \in Callers : WaitsForLock(c) ~> (call[c].pc = "done")

\* One callback never returns; the poller has processed a later report, and
\* the callback of that later change has called FillImage and returned.
C12_Witness ==
    \E c, d \in Callers :
        /\ call[c].pc = "blocked"
        /\ call[d].op = "FillImage" /\ call[d].pc = "done" /\ call[d].res = Nil
        /\ call[d].spawn > call[c].spawn
        /\ spawned[call[d].spawn].read > spawned[call[c].spawn].read
        /\ rpc = "read" /\ mutex = Unlocked

\* Reading a bitmap back: the 32-bit little-endian field at byte k (from 1),
\* and the image of the pixel data read in the order written, rows of the
\* header's width, three bytes blue, green, red for a pixel.
FieldAt(out, k) ==
    out[k] + 256 * out[k + 1] + 65536 * out[k + 2] + 16777216 * out[k + 3]

Decode(out) ==
    LET width == FieldAt(out, 19)
        height == FieldAt(out, 23)
        at(k) == FieldAt(out, 11) + 3 * k
    IN  [w |-> width, h |-> height,
         pix |-> [p \in (0 .. width - 1) \X (0 .. height - 1) |->
                    << out[at(p[2] * width + p[1]) + 3],
                       out[at(p[2] * width + p[1]) + 2],
                       out[at(p[2] * width + p[1]) + 1] >>]]

\* An image turned clockwise by 90 degrees, and by a multiple of 90 degrees.
RotateCW(img) ==
    [w |-> img.h, h |-> img.w,
     pix |-> [p \in (0 .. img.h - 1) \X (0 .. img.w - 1) |->
                img.pix[<< p[2], img.h - 1 - p[1] >>]]]

RECURSIVE Rotate(_, _)
Rotate(img, angle) == IF angle <= 0 THEN img ELSE Rotate(RotateCW(img), angle - 90)

InverseAngle(rotate) == (360 - rotate) % 360

C14_EncodedLength ==
    (enc.pc = "returned" /\ normRotate(enc.rotate) \in {0, 90, 180, 270})
        => LET swap == normRotate(enc.rotate) \in {90, 270}
               width == IF swap THEN enc.img.h ELSE enc.img.w
               height == IF swap THEN enc.img.w ELSE enc.img.h
           IN  /\ Len(enc.out) = 54 + width * height * 3
               /\ FieldAt(enc.out, 3) = Len(enc.out)
               /\ FieldAt(enc.out, 19) = width /\ FieldAt(enc.out, 23) = height
               /\ Len(enc.out) = makeBitmapLen(enc.img, enc.rotate)

\* An image of 1 x 2 pixels was encoded with -450 (270 after three additions
\* of 360), into 54 + 6 bytes.
C14_Witness ==
    /\ enc.pc = "returned" /\ enc.rotate = -450
    /\ enc.img.w = 1 /\ enc.img.h = 2
    /\ FieldAt(enc.out, 19) = 2 /\ FieldAt(enc.out, 23) = 1
    /\ Len(enc.out) = 60

\* C15: FillPanel, given an image of the panel's size, calls FillImage once
\* for every button of the device and for no other index, with the indexes
\* 0, 1, ... in this order, index 0 at the right end of the top row; the
\* sub-image of a call is the device's button size wide and high, and the
\* points makeBitmap samples for it are the points of the sub-image.
C15_PanelSlicedPerButton ==
    \A c \in Callers :
        (call[c].op = "FillPanel" /\ call[c].img = [w |-> PanelWidth, h |-> PanelHeight])
        => LET r == call[c]
               size == streamdeckDevices[info].ButtonSize
               row == r.counter \div NumButtonColumns
               col == r.counter % NumButtonColumns
               sub == PanelRect(r.img, row, col)
           IN  /\ r.fill <= ButtonCount
               /\ r.pc \in {"lock", "write"} =>
                     /\ r.idx = r.counter /\ r.idx = r.fill - 1
                     /\ r.idx < ButtonCount
                     /\ sub.w = size /\ sub.h = size
                     /\ r.len = BitmapHeaderLen + size * size * 3
                     /\ r.idx = 0 => (sub.x0 + sub.w = PanelWidth /\ sub.y0 = 0)
                     /\ sampledBounds(sub, FillRotate) = sub
               /\ (r.pc = "done" /\ r.res = Nil) => r.fill = ButtonCount

\* C16: within one call of writeBitmap the k-th frame written (k from 0)
\* carries the page index k, however many frames the bitmap takes.
C16_PageIndexCountsFrames ==
    \A c \in Callers : \A f \in 1 .. call[c].fill :
        LET frames == FramesOf(c, f)
        IN  \A k \in 1 .. Len(frames) : frames[k].page = k - 1

\* ceil(a / b) for a >= 0, b > 0.
CeilDiv(a, b) == (a + b - 1) \div b

\* C17: a call that sends a bitmap of L bytes writes max(1, ceil(L / P))
\* frames, P being the frame's length less the 16 bytes of its header: every
\* frame but the last carries P bytes with the flag 0, the last the other
\* L - (n-1)*P bytes, between 0 and P, with the flag 1. (So one frame with
\* no payload for L = 0, and L / P frames when P divides L.)
C17_FrameCount ==
    \A c \in Callers : \A f \in 1 .. call[c].fill :
        FillCompleted(c, f) =>
            LET fs == FramesOf(c, f)
                n == Len(fs)
                L == fs[1].total
                P == FrameLen - PayloadOffset
            IN  /\ n = Max(1, CeilDiv(L, P))
                /\ \A k \in 1 .. n - 1 : fs[k].n = P /\ fs[k].eof = 0
                /\ fs[n].n = L - (n - 1) * P
                /\ fs[n].n \in 0 .. P
                /\ fs[n].eof = 1

\* A call has completed for a bitmap of exactly two payloads, in two full
\* frames.
C17_Witness ==
    \E c \in Callers : \E f \in 1 .. call[c].fill :
        /\ FillCompleted(c, f)
        /\ Len(FramesOf(c, f)) = 2
        /\ FramesOf(c, f)[1].total = 2 * (FrameLen - PayloadOffset)
        /\ FramesOf(c, f)[2].n = FrameLen - PayloadOffset

\* C18: every frame written is as long as the StreamBuffer of the session's
\* device says and carries at most that less 16 bytes of the bitmap; its
\* first byte is 2 and its second byte is 1.
C18_FrameSizeOfDevice ==
    \A k \in 1 .. Len(wire) :
        wire[k].kind = "frame" =>
            /\ wire[k].size = streamdeckDevices[info].StreamBuffer
            /\ wire[k].n <= streamdeckDevices[info].StreamBuffer - PayloadOffset
            /\ wire[k].hdr = << 2, 1 >>

\* C19: only the buttons the session's device has are tracked: a position at
\* or past the device's number of buttons keeps the state it was given at
\* construction, and no callback is started for it, whatever the reports hold.
C19_OnlyDeviceButtons ==
    /\ \A i \in Buttons : i >= ButtonCount => btnState[i] = "BtnReleased"
    /\ \A k \in 1 .. Len(spawned) : spawned[k].btn \in 0 .. ButtonCount - 1

\* A state byte read as the claim reads it.
DecodeByte(b) == IF b = 0 THEN "BtnReleased" ELSE "BtnPressed"

\* The positions at which a report's state bytes d differ, once decoded, from
\* the states st.
Differing(st, d) == { i \in Buttons : i < Len(d) /\ DecodeByte(d[i + 1]) # st[i] }

\* C20: every button is released until a report says otherwise; the poller's
\* step on the state bytes of a valid report stores, for every position the
\* report has, the decoded byte, and leaves the other positions as they
\* were; it starts a callback for exactly the positions whose decoded byte
\* differs from the state stored before, with that new state, and only if a
\* callback is registered (so none for a report that repeats the states, or
\* that has another non-zero byte for a pressed button); no other step
\* changes a stored state or starts a callback.
C20_StateFollowsReports ==
    /\ [](reads = 0 => \A i \in Buttons : btnState[i] = "BtnReleased")
    /\ [][ IF rpc = "process" /\ rpc' # rpc
           THEN /\ \A i \in Buttons :
                      btnState'[i] = IF i < Len(data) THEN DecodeByte(data[i + 1])
                                     ELSE btnState[i]
                /\ LET new == Len(spawned) + 1 .. Len(spawned')
                       due == IF btnEventCb = Nil THEN {}
                              ELSE Differing(btnState, data)
                   IN  /\ SubSeq(spawned', 1, Len(spawned)) = spawned
                       /\ Cardinality(new) = Cardinality(due)
                       /\ \A i \in due : \E k \in new :
                              /\ spawned'[k].btn = i
                              /\ spawned'[k].state = DecodeByte(data[i + 1])
           ELSE btnState' = btnState /\ spawned' = spawned ]_vars

\* Button 0 was reported pressed and its callback started; the poller now
\* holds the lock with a report that has the byte 2 for it.
C20_Witness ==
    /\ rpc = "process"
    /\ data = << 2 >>
    /\ btnState[0] = "BtnPressed"
    /\ btnEventCb # Nil
    /\ Len(spawned) = 1 /\ spawned[1].btn = 0 /\ spawned[1].state = "BtnPressed"

\* C21: the session starts with every button released, and a stored state
\* changes only in a step of the poller's loop over the state bytes, made
\* while the poller holds the lock; no step of a foreground call (FillImage,
\* FillColor, FillPanel, ClearBtn, SetBrightness, Reset, SetBtnEventCb, Close),
\* returning nil, an error or panicking, changes one.
C21_StateMutatedByPollerOnly ==
    /\ \A i \in Buttons : btnState[i] = "BtnReleased"
    /\ [][ /\ call' # call => btnState' = btnState
           /\ btnState' # btnState =>
                 (rpc = "process" /\ rpc' = "read" /\ mutex = Poller) ]_vars

\* A foreground call has ended after writing to the device, and the poller
\* has stored a pressed button.
C21_Witness ==
    /\ btnState[0] = "BtnPressed"
    /\ call[OpsCaller].pc = "done"
    /\ Len(wire) > 0

\* C22: the step that closes the handle is never made while a FillImage call
\* holds the lock with frames of its bitmap still to write, and no frame is
\* handed to Write once the handle is closed.
C22_CloseWaitsForFill ==
    /\ [][ (~ closed /\ closed') =>
              \A c \in Callers : ~ (mutex = c /\ call[c].pc = "write") ]_vars
    /\ [][ (closed /\ wire' # wire) => Last(wire').kind # "frame" ]_vars

\* C23: the lock is held only inside the locked part of a call or of the
\* poller's iteration: a goroutine whose FillImage or SetBtnEventCb has ended
\* (returned, or panicked on a failed Write) does not hold it, and the poller
\* holds it only in its loop over the state bytes, never while it reads; and
\* under fair scheduling a lock that is held is released, so that whoever
\* waits for it can take it.
C23_LockNeverLeftHeld ==
    /\ [](\A c \in Callers : mutex = c => call[c].pc \in {"write", "cbSet"})
    /\ [](mutex = Poller => rpc = "process")
    /\ (mutex # Unlocked) ~> (mutex = Unlocked)

\* A FillImage call has ended by the panic of a failed Write, and the lock
\* has been taken again since, by another goroutine.
C23_Witness ==
    \E c \in Callers :
        /\ call[c].op = "FillImage" /\ call[c].pc = "done" /\ call[c].res = "panic"
        /\ mutex \notin {Unlocked, c}

\* C24: whatever report a read returns, a report of no byte or of the marker
\* byte alone included, the poller does not crash or stop: it is reading, or
\* on its way through the iteration to the next read.
C24_PollerSurvivesReports ==
    rpc \in {"read", "check", "lock", "process"}

\* The goroutines whose callback has run.
Ran == { delivered[j] : j \in 1 .. Len(delivered) }

\* C25: every callback that runs is called with the button and the state of
\* the change it was started for, as they were when the poller found the
\* change, whatever the button's state is by then; every change a callback
\* was started for is delivered once at most, and is either delivered or its
\* goroutine has still to run: none is lost, repeated or altered.
C25_CallbackGetsDetectedState ==
    /\ Len(received) = Len(delivered)
    /\ \A j \in 1 .. Len(delivered) :
          /\ delivered[j] \in 1 .. Len(spawned)
          /\ received[j] = << spawned[delivered[j]].btn, spawned[delivered[j]].state >>
    /\ \A a \in 1 .. Len(delivered) : \A b \in 1 .. Len(delivered) :
          delivered[a] = delivered[b] => a = b
    /\ Ran \cap pending = {}
    /\ Ran \cup pending = 1 .. Len(spawned)

\* Button 0 was found pressed, then released, and both callbacks have run:
\* the one of the press last, with the button released by then, and it was
\* called with the pressed state.
C25_Witness ==
    /\ Len(spawned) = 2 /\ pending = {}
    /\ delivered = << 2, 1 >>
    /\ received[1] = << 0, "BtnReleased" >>
    /\ received[2] = << 0, "BtnPressed" >>
    /\ btnState[0] = "BtnReleased"

====
